---- MODULE Spec2Model ----
(***************************************************************************)
(* State-machine model of core/state_prefetcher.go: statePrefetcher.Prefetch *)
(* replaying a block's transactions on a disposable state view.  Every run *)
(* of Prefetch is a process identified by a run id; its program counter    *)
(* walks the statements of lines 95-133.  Collaborators whose code is not  *)
(* in state_prefetcher.go (the signer, the EVM, the StateDB, the tx-file   *)
(* hooks of package types) are modelled by their contract.                 *)
(***************************************************************************)
EXTENDS Integers, Sequences, FiniteSets, TLC

VARIABLES
    block,      \* block[r]     : the *types.Block handed to run r
    config,     \* config[r]    : p.config, the chain configuration
    interrupt,  \* interrupt[r] : the *atomic.Bool handed to run r ("nil" when omitted)
    pc,         \* pc[r]        : position of run r inside Prefetch
    i,          \* i[r]         : the loop index of line 115
    statedb,    \* statedb[r]   : the disposable *state.StateDB of run r
    gp,         \* gp[r]        : the GasPool of line 100
    usedGas,    \* usedGas[r]   : the counter of line 96
    vmenv,      \* vmenv[r]     : the EVM of line 108 that executes for run r
    trace,      \* trace[r]     : the calls run r has made on its collaborators, in order
    txFile,     \* the calls received by the tx-file hooks of package types, in order
    durable     \* the durable backing store below every state view

vars == <<block, config, interrupt, pc, i, statedb, gp, usedGas, vmenv, trace, txFile, durable>>

-----------------------------------------------------------------------------
(* Bounds and input domains *)

MaxTxs == 2
MaxBlockNumber == 2

RunIds == {"r1", "r2"}
Nil == "nil"
BlockNumbers == 1..MaxBlockNumber
GasLimits == {2, 3}

\* The hashes of the transactions of a block, by position: the transactions
\* of a block are pairwise different, and a hash is an opaque value.
HashNames == <<"ha", "hb", "hc", "hd">>

\* What a transaction is like: how it fares (kind) and the gas it needs.
\*   "ok"      resolves and executes, provided the gas pool covers it
\*   "badsig"  sender resolution fails
\*   "badexec" resolves, but the EVM rejects the message (e.g. a bad nonce)
TxShapes ==
    [kind : {"ok"}, gas : {1, 2}] \cup [kind : {"badsig", "badexec"}, gas : {1}]

SeqsUpTo(S, n) == UNION {[1..m -> S] : m \in 0..n}

\* The transactions of a block, given what each is like.
MakeTxs(sh) ==
    [j \in 1..Len(sh) |-> [hash |-> HashNames[j], kind |-> sh[j].kind, gas |-> sh[j].gas]]

Blocks ==
    {[number |-> n, gasLimit |-> g, txs |-> MakeTxs(sh)] :
        n \in BlockNumbers, g \in GasLimits, sh \in SeqsUpTo(TxShapes, MaxTxs)}

\* A *big.Int of the configuration: the empty set is the nil pointer, {n} points to n.
NilBig == {}
Big(n) == {n}

Configs ==
    [DAOForkSupport : BOOLEAN,
     DAOForkBlock : {NilBig, Big(1)},
     ByzantiumBlock : {NilBig, Big(2)}]

InterruptValues == {Nil, "false", "true"}

\* The execution engine is opaque to Prefetch.  What matters here is whether
\* it computes a state root on the view after a transaction it executed.
Engines == [warmsRoot : BOOLEAN]
DefaultEngine == [warmsRoot |-> FALSE]

DefaultBlock == [number |-> 1, gasLimit |-> 2, txs |-> <<>>]
DefaultConfig == [DAOForkSupport |-> FALSE, DAOForkBlock |-> NilBig, ByzantiumBlock |-> NilBig]

-----------------------------------------------------------------------------
(* Helpers *)

Txs(r) == block[r].txs
NumTxs(r) == Len(block[r].txs)

\* A call made by a run: the operation, the hash and index (or block number)
\* it was given, its outcome, and for the calls that open a run or a
\* transaction the value the cancellation signal had at that moment.
Call(op, hash, idx, ok, intr) ==
    [op |-> op, hash |-> hash, idx |-> idx, ok |-> ok, intr |-> intr]

\* A call received by a tx-file hook.
Hook(op, num, hash) == [op |-> op, num |-> num, hash |-> hash]

EmptyStateDB == [thash |-> Nil, txIndex |-> 0, dao |-> 0, roots |-> 0, pending |-> {}]

Terminal(r) == pc[r] \in {"completed", "aborted"}

-----------------------------------------------------------------------------
(* Collaborators *)

\* params.ChainConfig.IsByzantium: the fork is configured and the block has reached it.
IsByzantium(cfg, num) == \E n \in cfg.ByzantiumBlock : n <= num

\* TransactionToMessage succeeds unless the signature cannot be resolved.
TransactionToMessage(tx) == tx.kind # "badsig"

\* applyTransaction succeeds when the EVM accepts the message and the gas
\* pool covers the gas the transaction asks for.
ApplyTransactionOk(tx, pool) == tx.kind = "ok" /\ pool >= tx.gas

\* misc.ApplyDAOHardFork: the irregular state change, made on the view only.
ApplyDAOHardFork(db) == [db EXCEPT !.dao = @ + 1, !.pending = @ \cup {"dao"}]

\* StateDB.SetTxContext: binds the transaction hash and index on the view.
SetTxContext(db, hash, idx) == [db EXCEPT !.thash = hash, !.txIndex = idx]

\* The view after a transaction was applied to it; warm tells whether the
\* engine computed a state root on the view while doing so (its internals
\* are opaque to Prefetch).
Applied(db, tx, warm) ==
    [db EXCEPT !.pending = @ \cup {tx.hash}, !.roots = IF warm THEN @ + 1 ELSE @]

-----------------------------------------------------------------------------
(* Initial states *)

\* The runs in A are about to be invoked on arbitrary inputs; the others never are.
InitRuns(A) ==
    /\ \E b \in [A -> Blocks] :
          block = [r \in RunIds |-> IF r \in A THEN b[r] ELSE DefaultBlock]
    /\ \E c \in [A -> Configs] :
          config = [r \in RunIds |-> IF r \in A THEN c[r] ELSE DefaultConfig]
    /\ \E e \in [A -> Engines] :
          vmenv = [r \in RunIds |-> IF r \in A THEN e[r] ELSE DefaultEngine]
    /\ \E s \in [A -> InterruptValues] :
          interrupt = [r \in RunIds |-> IF r \in A THEN s[r] ELSE Nil]
    /\ pc = [r \in RunIds |-> IF r \in A THEN "idle" ELSE "off"]
    /\ i = [r \in RunIds |-> 0]
    /\ statedb = [r \in RunIds |-> EmptyStateDB]
    /\ gp = [r \in RunIds |-> 0]
    /\ usedGas = [r \in RunIds |-> 0]
    /\ trace = [r \in RunIds |-> <<>>]
    /\ txFile = <<>>
    /\ durable = {"genesis"}

Init == InitRuns({"r1"})

\* Two runs of the same prefetcher (one configuration, one kind of engine)
\* under way at once, on blocks of at most one transaction; the first run
\* has a cancellation signal, which may be set meanwhile, the second has none.
ConcBlocks == {b \in Blocks : b.gasLimit = 2 /\ Len(b.txs) <= 1}
ConcConfigs == {c \in Configs : c.DAOForkSupport /\ c.ByzantiumBlock = NilBig}

InitConc ==
    /\ block \in [RunIds -> ConcBlocks]
    /\ \E c \in ConcConfigs : config = [r \in RunIds |-> c]
    /\ \E e \in Engines : vmenv = [r \in RunIds |-> e]
    /\ interrupt = [r \in RunIds |-> IF r = "r1" THEN "false" ELSE Nil]
    /\ pc = [r \in RunIds |-> "idle"]
    /\ i = [r \in RunIds |-> 0]
    /\ statedb = [r \in RunIds |-> EmptyStateDB]
    /\ gp = [r \in RunIds |-> 0]
    /\ usedGas = [r \in RunIds |-> 0]
    /\ trace = [r \in RunIds |-> <<>>]
    /\ txFile = <<>>
    /\ durable = {"genesis"}

-----------------------------------------------------------------------------
(* The steps of Prefetch *)

\* Lines 51, 95-101: entry; usedGas = new(uint64), gp = new(GasPool).AddGas(block.GasLimit()).
Invoke(r) ==
    /\ pc[r] = "idle"
    /\ gp' = [gp EXCEPT ![r] = block[r].gasLimit]
    /\ usedGas' = [usedGas EXCEPT ![r] = 0]
    /\ trace' = [trace EXCEPT ![r] = Append(@, Call("Prefetch", Nil, block[r].number, TRUE, interrupt[r]))]
    /\ pc' = [pc EXCEPT ![r] = "fork"]
    /\ UNCHANGED <<block, config, vmenv, interrupt, i, statedb, txFile, durable>>

\* Line 103 without the DAOForkSupport test.
DAOForkAppliesUnsupported(cfg, blk) ==
    /\ cfg.DAOForkBlock # NilBig
    /\ \A n \in cfg.DAOForkBlock : n = blk.number

\* Line 103: the condition under which the DAO hard fork is applied.
DAOForkApplies(cfg, blk) ==
    /\ cfg.DAOForkSupport
    /\ cfg.DAOForkBlock # NilBig
    /\ \A n \in cfg.DAOForkBlock : n = blk.number

\* Lines 102-110: mutate the state according to any hard-fork specs.
ForkCheck(r) ==
    /\ pc[r] = "fork"
    /\ IF DAOForkApplies(config[r], block[r])
          THEN /\ statedb' = [statedb EXCEPT ![r] = ApplyDAOHardFork(@)]
               /\ trace' = [trace EXCEPT ![r] = Append(@, Call("ApplyDAOHardFork", Nil, block[r].number, TRUE, Nil))]
          ELSE UNCHANGED <<statedb, trace>>
    /\ pc' = [pc EXCEPT ![r] = "init"]
    /\ UNCHANGED <<block, config, vmenv, interrupt, i, gp, usedGas, txFile, durable>>

\* Lines 111-113 without the test of line 111: begin-run for every block.
InitHookUnconditional(r) ==
    /\ pc[r] = "init"
    /\ txFile' = Append(txFile, Hook("InitTxFile", block[r].number, Nil))
    /\ trace' = [trace EXCEPT ![r] = Append(@, Call("InitTxFile", Nil, block[r].number, TRUE, Nil))]
    /\ i' = [i EXCEPT ![r] = 0]
    /\ pc' = [pc EXCEPT ![r] = "loop"]
    /\ UNCHANGED <<block, config, vmenv, interrupt, statedb, gp, usedGas, durable>>

\* Lines 111-113: the begin-run hook, for a block that has transactions.
InitHook(r) ==
    /\ pc[r] = "init"
    /\ IF NumTxs(r) > 0
          THEN /\ txFile' = Append(txFile, Hook("InitTxFile", block[r].number, Nil))
               /\ trace' = [trace EXCEPT ![r] = Append(@, Call("InitTxFile", Nil, block[r].number, TRUE, Nil))]
          ELSE UNCHANGED <<txFile, trace>>
    /\ i' = [i EXCEPT ![r] = 0]
    /\ pc' = [pc EXCEPT ![r] = "loop"]
    /\ UNCHANGED <<block, config, vmenv, interrupt, statedb, gp, usedGas, durable>>

\* Line 115 with the gas pool of line 100 made anew for each transaction.
LoopHeadFreshPool(r) ==
    /\ pc[r] = "loop"
    /\ pc' = [pc EXCEPT ![r] = IF i[r] < NumTxs(r) THEN "resolve" ELSE "rename"]
    /\ gp' = [gp EXCEPT ![r] = block[r].gasLimit]
    /\ UNCHANGED <<block, config, vmenv, interrupt, i, statedb, usedGas, trace, txFile, durable>>

\* Line 115 leaving the loop one transaction early.
LoopHeadOffByOne(r) ==
    /\ pc[r] = "loop"
    /\ pc' = [pc EXCEPT ![r] = IF i[r] + 1 < NumTxs(r) THEN "resolve" ELSE "rename"]
    /\ UNCHANGED <<block, config, vmenv, interrupt, i, statedb, gp, usedGas, trace, txFile, durable>>

\* Line 115: the range loop takes the next transaction, or falls through.
LoopHead(r) ==
    /\ pc[r] = "loop"
    /\ pc' = [pc EXCEPT ![r] = IF i[r] < NumTxs(r) THEN "resolve" ELSE "rename"]
    /\ UNCHANGED <<block, config, vmenv, interrupt, i, statedb, gp, usedGas, trace, txFile, durable>>

\* Lines 116-120 returning on failure without the abort-run hook.
ResolveNoAbortHook(r) ==
    /\ pc[r] = "resolve"
    /\ LET tx == Txs(r)[i[r] + 1]
           ok == TransactionToMessage(tx)
           c  == Call("TransactionToMessage", tx.hash, i[r], ok, interrupt[r])
       IN /\ trace' = [trace EXCEPT ![r] = Append(@, c)]
          /\ pc' = [pc EXCEPT ![r] = IF ok THEN "bind" ELSE "aborted"]
    /\ UNCHANGED <<block, config, vmenv, interrupt, i, statedb, gp, usedGas, txFile, durable>>

\* Lines 116-120 with `continue` in place of the abort: the bad transaction is skipped.
ResolveSkipsBadTx(r) ==
    /\ pc[r] = "resolve"
    /\ LET tx == Txs(r)[i[r] + 1]
           ok == TransactionToMessage(tx)
           c  == Call("TransactionToMessage", tx.hash, i[r], ok, interrupt[r])
       IN /\ trace' = [trace EXCEPT ![r] = Append(@, c)]
          /\ pc' = [pc EXCEPT ![r] = IF ok THEN "bind" ELSE "loop"]
          /\ i' = [i EXCEPT ![r] = IF ok THEN @ ELSE @ + 1]
    /\ UNCHANGED <<block, config, vmenv, interrupt, statedb, gp, usedGas, txFile, durable>>

\* Lines 116-120: resolve the sender; on failure fire the abort-run hook and return.
Resolve(r) ==
    /\ pc[r] = "resolve"
    /\ LET tx == Txs(r)[i[r] + 1]
           ok == TransactionToMessage(tx)
           c  == Call("TransactionToMessage", tx.hash, i[r], ok, interrupt[r])
       IN IF ok
             THEN /\ trace' = [trace EXCEPT ![r] = Append(@, c)]
                  /\ pc' = [pc EXCEPT ![r] = "bind"]
                  /\ UNCHANGED txFile
             ELSE /\ trace' = [trace EXCEPT ![r] =
                                  @ \o <<c, Call("DelTxFile", Nil, block[r].number, TRUE, Nil)>>]
                  /\ txFile' = Append(txFile, Hook("DelTxFile", block[r].number, Nil))
                  /\ pc' = [pc EXCEPT ![r] = "aborted"]
    /\ UNCHANGED <<block, config, vmenv, interrupt, i, statedb, gp, usedGas, durable>>

\* Line 121 left out: the transaction is executed under the context bound before.
BindTxContextSkipped(r) ==
    /\ pc[r] = "bind"
    /\ pc' = [pc EXCEPT ![r] = "write1"]
    /\ UNCHANGED <<block, config, vmenv, interrupt, i, statedb, gp, usedGas, trace, txFile, durable>>

\* Line 121 binding a one-based index.
BindTxContextOffByOne(r) ==
    /\ pc[r] = "bind"
    /\ LET tx == Txs(r)[i[r] + 1]
       IN /\ statedb' = [statedb EXCEPT ![r] = SetTxContext(@, tx.hash, i[r] + 1)]
          /\ trace' = [trace EXCEPT ![r] = Append(@, Call("SetTxContext", tx.hash, i[r] + 1, TRUE, Nil))]
    /\ pc' = [pc EXCEPT ![r] = "write1"]
    /\ UNCHANGED <<block, config, vmenv, interrupt, i, gp, usedGas, txFile, durable>>

\* Line 121: statedb.SetTxContext(tx.Hash(), i).
BindTxContext(r) ==
    /\ pc[r] = "bind"
    /\ LET tx == Txs(r)[i[r] + 1]
       IN /\ statedb' = [statedb EXCEPT ![r] = SetTxContext(@, tx.hash, i[r])]
          /\ trace' = [trace EXCEPT ![r] = Append(@, Call("SetTxContext", tx.hash, i[r], TRUE, Nil))]
    /\ pc' = [pc EXCEPT ![r] = "write1"]
    /\ UNCHANGED <<block, config, vmenv, interrupt, i, gp, usedGas, txFile, durable>>

\* Line 122: types.WriteHash(header.Number, tx.Hash()) before execution.
WriteHashBefore(r) ==
    /\ pc[r] = "write1"
    /\ LET tx == Txs(r)[i[r] + 1]
       IN /\ txFile' = Append(txFile, Hook("WriteHash", block[r].number, tx.hash))
          /\ trace' = [trace EXCEPT ![r] = Append(@, Call("WriteHash", tx.hash, block[r].number, TRUE, Nil))]
    /\ pc' = [pc EXCEPT ![r] = "apply"]
    /\ UNCHANGED <<block, config, vmenv, interrupt, i, statedb, gp, usedGas, durable>>

\* Lines 123-127 with one gas pool for the whole process instead of line 100's own.
ApplyTxSharedPool(r) ==
    /\ pc[r] = "apply"
    /\ LET tx == Txs(r)[i[r] + 1]
           ok == ApplyTransactionOk(tx, gp[r])
           c  == Call("applyTransaction", statedb[r].thash, statedb[r].txIndex, ok, Nil)
           warm == vmenv[r].warmsRoot
       IN IF ok
             THEN /\ statedb' = [statedb EXCEPT ![r] = Applied(@, tx, warm)]
                  /\ gp' = [q \in RunIds |-> IF gp[q] >= tx.gas THEN gp[q] - tx.gas ELSE 0]
                  /\ usedGas' = [usedGas EXCEPT ![r] = @ + tx.gas]
                  /\ trace' = [trace EXCEPT ![r] =
                                  IF warm
                                     THEN @ \o <<c, Call("IntermediateRoot", Nil, i[r], TRUE, Nil)>>
                                     ELSE Append(@, c)]
                  /\ pc' = [pc EXCEPT ![r] = "write2"]
                  /\ UNCHANGED txFile
             ELSE /\ trace' = [trace EXCEPT ![r] =
                                  @ \o <<c, Call("DelTxFile", Nil, block[r].number, TRUE, Nil)>>]
                  /\ txFile' = Append(txFile, Hook("DelTxFile", block[r].number, Nil))
                  /\ pc' = [pc EXCEPT ![r] = "aborted"]
                  /\ UNCHANGED <<statedb, gp, usedGas>>
    /\ UNCHANGED <<block, config, vmenv, interrupt, i, durable>>

\* Lines 123-127 with the error of applyTransaction dropped: the loop goes on.
ApplyTxIgnoresError(r) ==
    /\ pc[r] = "apply"
    /\ LET tx == Txs(r)[i[r] + 1]
           ok == ApplyTransactionOk(tx, gp[r])
           c  == Call("applyTransaction", statedb[r].thash, statedb[r].txIndex, ok, Nil)
           warm == vmenv[r].warmsRoot
       IN IF ok
             THEN /\ statedb' = [statedb EXCEPT ![r] = Applied(@, tx, warm)]
                  /\ gp' = [gp EXCEPT ![r] = @ - tx.gas]
                  /\ usedGas' = [usedGas EXCEPT ![r] = @ + tx.gas]
                  /\ trace' = [trace EXCEPT ![r] =
                                  IF warm
                                     THEN @ \o <<c, Call("IntermediateRoot", Nil, i[r], TRUE, Nil)>>
                                     ELSE Append(@, c)]
             ELSE /\ trace' = [trace EXCEPT ![r] = Append(@, c)]
                  /\ UNCHANGED <<statedb, gp, usedGas>>
    /\ pc' = [pc EXCEPT ![r] = "write2"]
    /\ UNCHANGED <<block, config, vmenv, interrupt, i, txFile, durable>>

\* Lines 123-127: applyTransaction; on failure fire the abort-run hook and return.
\* The call is logged with the context bound on the view when it was made.
ApplyTx(r) ==
    /\ pc[r] = "apply"
    /\ LET tx == Txs(r)[i[r] + 1]
           ok == ApplyTransactionOk(tx, gp[r])
           c  == Call("applyTransaction", statedb[r].thash, statedb[r].txIndex, ok, Nil)
           warm == vmenv[r].warmsRoot
       IN IF ok
             THEN /\ statedb' = [statedb EXCEPT ![r] = Applied(@, tx, warm)]
                  /\ gp' = [gp EXCEPT ![r] = @ - tx.gas]
                  /\ usedGas' = [usedGas EXCEPT ![r] = @ + tx.gas]
                  /\ trace' = [trace EXCEPT ![r] =
                                  IF warm
                                     THEN @ \o <<c, Call("IntermediateRoot", Nil, i[r], TRUE, Nil)>>
                                     ELSE Append(@, c)]
                  /\ pc' = [pc EXCEPT ![r] = "write2"]
                  /\ UNCHANGED txFile
             ELSE /\ trace' = [trace EXCEPT ![r] =
                                  @ \o <<c, Call("DelTxFile", Nil, block[r].number, TRUE, Nil)>>]
                  /\ txFile' = Append(txFile, Hook("DelTxFile", block[r].number, Nil))
                  /\ pc' = [pc EXCEPT ![r] = "aborted"]
                  /\ UNCHANGED <<statedb, gp, usedGas>>
    /\ UNCHANGED <<block, config, vmenv, interrupt, i, durable>>

\* Line 128 left out: the transaction is not recorded after its execution.
WriteHashAfterSilent(r) ==
    /\ pc[r] = "write2"
    /\ i' = [i EXCEPT ![r] = @ + 1]
    /\ pc' = [pc EXCEPT ![r] = "loop"]
    /\ UNCHANGED <<block, config, vmenv, interrupt, statedb, gp, usedGas, trace, txFile, durable>>

\* Line 128, then back to line 115: WriteHash after execution, next transaction.
WriteHashAfter(r) ==
    /\ pc[r] = "write2"
    /\ LET tx == Txs(r)[i[r] + 1]
       IN /\ txFile' = Append(txFile, Hook("WriteHash", block[r].number, tx.hash))
          /\ trace' = [trace EXCEPT ![r] = Append(@, Call("WriteHash", tx.hash, block[r].number, TRUE, Nil))]
    /\ i' = [i EXCEPT ![r] = @ + 1]
    /\ pc' = [pc EXCEPT ![r] = "loop"]
    /\ UNCHANGED <<block, config, vmenv, interrupt, statedb, gp, usedGas, durable>>

\* Lines 130-133 followed by a commit of the view to the backing store.
RenameCommits(r) ==
    /\ pc[r] = "rename"
    /\ IF NumTxs(r) > 0
          THEN /\ txFile' = Append(txFile, Hook("ReNameTxFile", block[r].number, Nil))
               /\ trace' = [trace EXCEPT ![r] = Append(@, Call("ReNameTxFile", Nil, block[r].number, TRUE, Nil))]
          ELSE UNCHANGED <<txFile, trace>>
    /\ durable' = durable \cup statedb[r].pending
    /\ pc' = [pc EXCEPT ![r] = "completed"]
    /\ UNCHANGED <<block, config, vmenv, interrupt, i, statedb, gp, usedGas>>

\* Lines 130-133: the end-run hook, for a block that has transactions; return.
Rename(r) ==
    /\ pc[r] = "rename"
    /\ IF NumTxs(r) > 0
          THEN /\ txFile' = Append(txFile, Hook("ReNameTxFile", block[r].number, Nil))
               /\ trace' = [trace EXCEPT ![r] = Append(@, Call("ReNameTxFile", Nil, block[r].number, TRUE, Nil))]
          ELSE UNCHANGED <<txFile, trace>>
    /\ pc' = [pc EXCEPT ![r] = "completed"]
    /\ UNCHANGED <<block, config, vmenv, interrupt, i, statedb, gp, usedGas, durable>>

\* Another actor sets the cancellation signal (atomic.Bool.Store(true)).
SetInterrupt(r) ==
    /\ interrupt[r] = "false"
    /\ interrupt' = [interrupt EXCEPT ![r] = "true"]
    /\ UNCHANGED <<block, config, vmenv, pc, i, statedb, gp, usedGas, trace, txFile, durable>>

\* One step of run r.
Step(r) ==
    \/ Invoke(r)
    \/ ForkCheck(r)
    \/ InitHook(r)
    \/ LoopHead(r)
    \/ Resolve(r)
    \/ BindTxContext(r)
    \/ WriteHashBefore(r)
    \/ ApplyTx(r)
    \/ WriteHashAfter(r)
    \/ Rename(r)

Next == \E r \in RunIds : Step(r) \/ SetInterrupt(r)

Spec == Init /\ [][Next]_vars

\* Runs of Prefetch on several goroutines at once.
SpecConc == InitConc /\ [][Next]_vars

\* Prefetch runs synchronously on the goroutine that called it: a run that
\* can take a step eventually takes it.
FairSpec == Spec /\ \A r \in RunIds : WF_vars(Step(r))

-----------------------------------------------------------------------------
(* Observations on a run's calls *)

\* The calls of run r whose operation is in ops, in the order they were made.
CallsOf(r, ops) == SelectSeq(trace[r], LAMBDA c : c.op \in ops)

Count(r, op) == Len(CallsOf(r, {op}))

\* All transactions of the block of run r resolve and are accepted by the EVM.
AllValid(r) == \A j \in 1..NumTxs(r) : Txs(r)[j].kind = "ok"

-----------------------------------------------------------------------------
(* C1: cancellation stops the replay *)

\* C1: once the cancellation signal was true when Prefetch was entered or
\* when the processing of a transaction began, no transaction is presented
\* to the execution engine from then on.
CancelStopsExecution ==
    \A r \in RunIds : \A k, j \in DOMAIN trace[r] :
        (k < j /\ trace[r][k].intr = "true") => trace[r][j].op # "applyTransaction"

-----------------------------------------------------------------------------
(* C2: the begin-run hook is matched by exactly one closing hook *)

HookOps(r) ==
    LET h == CallsOf(r, {"InitTxFile", "ReNameTxFile", "DelTxFile"})
    IN [j \in 1..Len(h) |-> h[j].op]

PairingOk(r) ==
    /\ HookOps(r) \in {<<>>, <<"InitTxFile">>,
                       <<"InitTxFile", "ReNameTxFile">>, <<"InitTxFile", "DelTxFile">>}
    /\ \A j \in DOMAIN trace[r] :
          trace[r][j].op \in {"InitTxFile", "ReNameTxFile", "DelTxFile"}
              => trace[r][j].idx = block[r].number
    /\ Terminal(r) => Len(HookOps(r)) \in {0, 2}

Begun(r) == Count(r, "InitTxFile") > 0
Closed(r) == Count(r, "ReNameTxFile") + Count(r, "DelTxFile") = 1

\* C2: in every run the hooks called are nothing, begin-run alone while the
\* run is under way, or begin-run followed by exactly one of end-run and
\* abort-run, all for the block's number; a run that has returned has closed
\* what it began, and every begin-run is eventually followed by its closing hook.
HookPairing ==
    /\ [](\A r \in RunIds : PairingOk(r))
    /\ \A r \in RunIds : (Begun(r) ~> Closed(r))

\* A run aborted at its second transaction by an execution failure has
\* fired begin-run and then abort-run.
HookPairingWitness ==
    \E r \in RunIds :
        /\ pc[r] = "aborted"
        /\ HookOps(r) = <<"InitTxFile", "DelTxFile">>
        /\ \E j \in DOMAIN trace[r] :
              trace[r][j].op = "applyTransaction" /\ ~trace[r][j].ok /\ trace[r][j].idx = 1

-----------------------------------------------------------------------------
(* C3: contexts are bound in block order *)

Bindings(r) == CallsOf(r, {"SetTxContext"})

\* C3: the contexts bound on the view are, in order, (hash(t0),0),
\* (hash(t1),1), ...: a prefix of the block's transactions while the run is
\* under way or after an abort, and all of them once the run has completed.
ContextOrder ==
    \A r \in RunIds :
        /\ Len(Bindings(r)) <= NumTxs(r)
        /\ \A j \in 1..Len(Bindings(r)) :
              Bindings(r)[j].hash = Txs(r)[j].hash /\ Bindings(r)[j].idx = j - 1
        /\ pc[r] = "completed" => Len(Bindings(r)) = NumTxs(r)
        /\ Len(Bindings(r)) > 0 =>
              /\ statedb[r].thash = Txs(r)[Len(Bindings(r))].hash
              /\ statedb[r].txIndex = Len(Bindings(r)) - 1

\* A completed run over two transactions with different hashes.
ContextOrderWitness ==
    \E r \in RunIds :
        /\ pc[r] = "completed"
        /\ NumTxs(r) = 2
        /\ Txs(r)[1].hash # Txs(r)[2].hash
        /\ Len(Bindings(r)) = 2

-----------------------------------------------------------------------------
(* C4, C5: a failing transaction ends the run *)

\* The call at position j of run r is the last thing the run did, but for
\* the abort-run hook, and the run has returned as aborted.
EndsRunAt(r, j) ==
    /\ pc[r] = "aborted"
    /\ \A m \in DOMAIN trace[r] : m > j => trace[r][m].op = "DelTxFile"

\* C4: after a failed sender resolution the run is aborted and has made no
\* further call: no resolution, context binding, execution or root computation.
ResolveFailStops ==
    \A r \in RunIds : \A j \in DOMAIN trace[r] :
        (trace[r][j].op = "TransactionToMessage" /\ ~trace[r][j].ok) => EndsRunAt(r, j)

\* The first of two transactions failed to resolve.
ResolveFailWitness ==
    \E r \in RunIds : \E j \in DOMAIN trace[r] :
        /\ trace[r][j].op = "TransactionToMessage" /\ ~trace[r][j].ok /\ trace[r][j].idx = 0
        /\ NumTxs(r) = 2
        /\ pc[r] = "aborted"

\* C5: after an execution failure the run is aborted and has made no further
\* call: no resolution, context binding or execution of a later transaction.
ExecFailStops ==
    \A r \in RunIds : \A j \in DOMAIN trace[r] :
        (trace[r][j].op = "applyTransaction" /\ ~trace[r][j].ok) => EndsRunAt(r, j)

\* The first of two transactions was rejected by the engine.
ExecFailWitness ==
    \E r \in RunIds : \E j \in DOMAIN trace[r] :
        /\ trace[r][j].op = "applyTransaction" /\ ~trace[r][j].ok /\ trace[r][j].idx = 0
        /\ NumTxs(r) = 2
        /\ pc[r] = "aborted"

-----------------------------------------------------------------------------
(* C7: the final root computation of a post-Byzantium block *)

\* C7: a returned run on a Byzantium (or later) block has computed exactly
\* one state root if it completed, and none if it aborted.
FinalRootPostByzantium ==
    \A r \in RunIds :
        (Terminal(r) /\ IsByzantium(config[r], block[r].number)) =>
            /\ Count(r, "IntermediateRoot") = (IF pc[r] = "completed" THEN 1 ELSE 0)
            /\ statedb[r].roots = Count(r, "IntermediateRoot")

-----------------------------------------------------------------------------
(* C8: the one-time fork mutation *)

\* C8: the DAO mutation is applied at most once; once the fork check is
\* passed it has been applied exactly when the fork is supported and its
\* configured block is the block's number; and it precedes every other call
\* of the run.
DAOForkOnce ==
    \A r \in RunIds :
        LET n == Count(r, "ApplyDAOHardFork")
        IN /\ n <= 1
           /\ statedb[r].dao = n
           /\ pc[r] \in {"off", "idle", "fork"} => n = 0
           /\ pc[r] \notin {"off", "idle", "fork"} =>
                 (n = 1 <=> (config[r].DAOForkSupport /\ config[r].DAOForkBlock = {block[r].number}))
           /\ \A j \in DOMAIN trace[r] :
                 trace[r][j].op = "ApplyDAOHardFork" =>
                     \A m \in 1..(j - 1) : trace[r][m].op = "Prefetch"

\* A completed run on an empty block at the fork block, with the mutation applied.
DAOForkWitness ==
    \E r \in RunIds :
        /\ pc[r] = "completed"
        /\ NumTxs(r) = 0
        /\ statedb[r].dao = 1

-----------------------------------------------------------------------------
(* C9: nothing reaches the durable store *)

\* C9: the durable backing store is what it was before the run, at every
\* point of the run and after it has returned.
DurableUnchanged == durable = {"genesis"}

\* A returned run whose view holds pending changes.
DurableWitness ==
    \E r \in RunIds : Terminal(r) /\ statedb[r].pending # {}

-----------------------------------------------------------------------------
(* C10: a run that starts cancelled *)

\* C10: a returned run on a non-empty block of valid transactions that was
\* entered with the signal already true has bound and executed nothing,
\* fired abort-run and not end-run, and computed no state root.
CancelledAtStart ==
    \A r \in RunIds :
        (/\ Terminal(r)
         /\ NumTxs(r) > 0
         /\ AllValid(r)
         /\ trace[r][1].intr = "true") =>
            /\ Count(r, "SetTxContext") = 0
            /\ Count(r, "applyTransaction") = 0
            /\ Count(r, "DelTxFile") = 1
            /\ Count(r, "ReNameTxFile") = 0
            /\ Count(r, "IntermediateRoot") = 0

-----------------------------------------------------------------------------
(* C12: a run ends completed or aborted, and then does nothing more *)

\* A sender resolution or an execution of run r has failed.
Failed(r) ==
    \E j \in DOMAIN trace[r] :
        trace[r][j].op \in {"TransactionToMessage", "applyTransaction"} /\ ~trace[r][j].ok

\* Transaction number k (from 0) of run r was resolved and executed without error.
Processed(r, k) ==
    /\ \E j \in DOMAIN trace[r] :
          trace[r][j].op = "TransactionToMessage" /\ trace[r][j].idx = k /\ trace[r][j].ok
    /\ \E j \in DOMAIN trace[r] :
          trace[r][j].op = "applyTransaction" /\ trace[r][j].idx = k /\ trace[r][j].ok

RunOutcomeOk(r) ==
    /\ pc[r] = "aborted" <=> Failed(r)
    /\ pc[r] = "completed" => \A k \in 0..(NumTxs(r) - 1) : Processed(r, k)

\* Nothing of run r changes in this step.
RunQuiet(r) ==
    /\ pc'[r] = pc[r]
    /\ i'[r] = i[r]
    /\ trace'[r] = trace[r]
    /\ statedb'[r] = statedb[r]
    /\ gp'[r] = gp[r]
    /\ usedGas'[r] = usedGas[r]

-----------------------------------------------------------------------------
(* C13: the engine runs a transaction under its own context *)

\* The call at position j of run r executes a transaction: the three calls
\* before it resolved that transaction, bound its context and recorded it.
ExecInOrder(r, j) ==
    LET c == trace[r][j]
    IN /\ c.idx \in 0..(NumTxs(r) - 1)
       /\ c.hash = Txs(r)[c.idx + 1].hash
       /\ Len(SelectSeq(SubSeq(trace[r], 1, j - 1), LAMBDA d : d.op = "applyTransaction")) = c.idx
       /\ j > 3
       /\ trace[r][j - 3].op = "TransactionToMessage"
       /\ trace[r][j - 3].ok /\ trace[r][j - 3].hash = c.hash /\ trace[r][j - 3].idx = c.idx
       /\ trace[r][j - 2].op = "SetTxContext"
       /\ trace[r][j - 2].hash = c.hash /\ trace[r][j - 2].idx = c.idx
       /\ trace[r][j - 1].op = "WriteHash"

\* C13: when the engine is about to be invoked for transaction i, the context
\* bound on the view is (hash(ti), i); and every invocation made was made
\* under the context of the transaction it executed, bound after that
\* transaction's sender was resolved.
ExecUnderOwnContext ==
    \A r \in RunIds :
        /\ pc[r] = "apply" =>
              /\ statedb[r].thash = Txs(r)[i[r] + 1].hash
              /\ statedb[r].txIndex = i[r]
        /\ \A j \in DOMAIN trace[r] :
              trace[r][j].op = "applyTransaction" => ExecInOrder(r, j)

\* The engine was invoked for the second transaction of a block.
ExecUnderOwnContextWitness ==
    \E r \in RunIds : \E j \in DOMAIN trace[r] :
        trace[r][j].op = "applyTransaction" /\ trace[r][j].idx = 1 /\ trace[r][j].hash = HashNames[2]

-----------------------------------------------------------------------------
(* C14: the hooks of concurrent runs *)

\* The hook calls received for block number n, in order.
HooksFor(n) == SelectSeq(txFile, LAMBDA h : h.num = n)

\* C14: for every block number the hook calls received form matched pairs:
\* a begin-run comes first or right after an end-run or abort-run, and a
\* record-transaction, end-run or abort-run comes after a begin-run with
\* only record-transaction calls in between.
HooksPairedPerNumber ==
    \A n \in BlockNumbers :
        LET h == HooksFor(n)
        IN \A j \in DOMAIN h :
              IF h[j].op = "InitTxFile"
                 THEN j = 1 \/ h[j - 1].op \in {"ReNameTxFile", "DelTxFile"}
                 ELSE j > 1 /\ h[j - 1].op \in {"InitTxFile", "WriteHash"}

-----------------------------------------------------------------------------
(* C15: concurrent runs do not touch each other's view or gas tracker *)

RECURSIVE GasOf(_, _)
\* The gas asked for by the transactions of txs whose numbers (from 0) are in S.
GasOf(txs, S) ==
    IF S = {} THEN 0
    ELSE LET k == CHOOSE x \in S : TRUE
         IN txs[k + 1].gas + GasOf(txs, S \ {k})

\* The transactions of run r executed without error so far.
Executed(r) == {k \in 0..(NumTxs(r) - 1) : Processed(r, k)}

\* What run r holds is what its own block and its own progress make it:
\* the values it has when it executes alone.
OwnValues(r) ==
    /\ pc[r] \notin {"off", "idle"} =>
          /\ gp[r] = block[r].gasLimit - GasOf(Txs(r), Executed(r))
          /\ usedGas[r] = GasOf(Txs(r), Executed(r))
    /\ statedb[r].pending \ {"dao"} = {Txs(r)[k + 1].hash : k \in Executed(r)}
    /\ \A j \in 1..Len(Bindings(r)) :
          Bindings(r)[j].hash = Txs(r)[j].hash /\ Bindings(r)[j].idx = j - 1
    /\ \A j \in DOMAIN trace[r] :
          trace[r][j].op = "applyTransaction" => ExecInOrder(r, j)

\* C15: under any interleaving every run holds the values of its own
\* execution (gas tracker, view, contexts bound, engine invocations), and no
\* step changes anything of more than one run.
RunsIsolated ==
    /\ [](\A r \in RunIds : OwnValues(r))
    /\ [][\A r, q \in RunIds : r # q => (RunQuiet(r) \/ RunQuiet(q))]_vars

\* Both runs have executed a transaction, with different gas left.
RunsIsolatedWitness ==
    /\ \A r \in RunIds : Terminal(r) /\ Executed(r) # {}
    /\ gp["r1"] # gp["r2"]

-----------------------------------------------------------------------------
(* C16: the gas tracker of a run *)

Started(r) == pc[r] \notin {"off", "idle"}

GasTrackerOk(r) ==
    Started(r) =>
        /\ gp[r] >= 0
        /\ gp[r] <= block[r].gasLimit
        /\ Executed(r) = {} => gp[r] = block[r].gasLimit
        /\ gp[r] + usedGas[r] = block[r].gasLimit

\* C16: the gas tracker of a run starts at the block's gas limit, is never
\* negative, and from one state of the run to the next never grows: it is
\* neither replenished nor made anew between transactions.
GasTrackerDecreases ==
    /\ [](\A r \in RunIds : GasTrackerOk(r))
    /\ [][\A r \in RunIds : Started(r) => gp'[r] <= gp[r]]_vars

\* Two transactions were executed on the same tracker.
GasTrackerWitness ==
    \E r \in RunIds :
        /\ Executed(r) = {0, 1}
        /\ gp[r] < block[r].gasLimit - 1

-----------------------------------------------------------------------------
(* C17: the record-transaction hook *)

\* The positions in the calls of run r where transaction k (from 0) is recorded.
WritesOf(r, k) ==
    {j \in DOMAIN trace[r] :
        /\ trace[r][j].op = "WriteHash"
        /\ trace[r][j].hash = Txs(r)[k + 1].hash
        /\ trace[r][j].idx = block[r].number}

\* The call at position j of run r has this operation, this outcome, and is about transaction k.
IsCall(r, j, op, ok, k) ==
    /\ j \in DOMAIN trace[r]
    /\ trace[r][j].op = op
    /\ trace[r][j].ok = ok
    /\ trace[r][j].hash = Txs(r)[k + 1].hash

\* The run is done with transaction k.
PastTx(r, k) == Terminal(r) \/ (Started(r) /\ pc[r] \notin {"fork", "init"} /\ i[r] > k)

\* A record-transaction call comes right after the context of its transaction
\* was bound, the execution following, or right after that execution
\* succeeded (and the engine's root computation, if it made one).
WritePlaced(r, j) ==
    \E k \in 0..(NumTxs(r) - 1) :
        /\ j \in WritesOf(r, k)
        /\ \/ /\ IsCall(r, j - 1, "SetTxContext", TRUE, k)
              /\ j + 1 \in DOMAIN trace[r] => trace[r][j + 1].op = "applyTransaction"
           \/ IsCall(r, j - 1, "applyTransaction", TRUE, k)
           \/ /\ j > 2
              /\ trace[r][j - 1].op = "IntermediateRoot"
              /\ IsCall(r, j - 2, "applyTransaction", TRUE, k)

\* C17: every record-transaction call of a run comes after its begin-run and
\* before its end-run or abort-run, and is placed as said above with the hash
\* of the transaction in hand; a transaction the run is done with was
\* recorded twice if it executed, once if its execution failed, and never if
\* its sender could not be resolved or it was never reached.
WriteHashCalls ==
    \A r \in RunIds :
        /\ \A j \in DOMAIN trace[r] :
              trace[r][j].op = "WriteHash" =>
                  /\ WritePlaced(r, j)
                  /\ \E m \in 1..(j - 1) : trace[r][m].op = "InitTxFile"
                  /\ \A m \in 1..j : trace[r][m].op \notin {"ReNameTxFile", "DelTxFile"}
        /\ \A k \in 0..(NumTxs(r) - 1) :
              /\ Cardinality(WritesOf(r, k)) <= 2
              /\ PastTx(r, k) =>
                    Cardinality(WritesOf(r, k)) =
                        IF \E j \in DOMAIN trace[r] : IsCall(r, j, "applyTransaction", TRUE, k)
                           THEN 2
                        ELSE IF \E j \in DOMAIN trace[r] : IsCall(r, j, "applyTransaction", FALSE, k)
                           THEN 1
                        ELSE 0

\* The first transaction executed and was recorded twice, the execution of
\* the second failed and it was recorded once.
WriteHashWitness ==
    \E r \in RunIds :
        /\ pc[r] = "aborted"
        /\ NumTxs(r) = 2
        /\ Cardinality(WritesOf(r, 0)) = 2
        /\ Cardinality(WritesOf(r, 1)) = 1

-----------------------------------------------------------------------------
(* C18: a block without transactions *)

\* C18: a run on an empty block calls no hook, binds no context and never
\* invokes the engine; begin-run is called at most once, and once the run is
\* past lines 111-113 it has been called exactly when the block has a
\* transaction; it comes before the first sender resolution.
EmptyBlockNoHooks ==
    \A r \in RunIds :
        /\ NumTxs(r) = 0 =>
              \A j \in DOMAIN trace[r] : trace[r][j].op \in {"Prefetch", "ApplyDAOHardFork"}
        /\ Count(r, "InitTxFile") <= 1
        /\ (Started(r) /\ pc[r] \notin {"fork", "init"}) =>
              (Count(r, "InitTxFile") = 1 <=> NumTxs(r) > 0)
        /\ \A j \in DOMAIN trace[r] :
              trace[r][j].op = "TransactionToMessage" =>
                  \E m \in 1..(j - 1) : trace[r][m].op = "InitTxFile"

\* A completed run on an empty block away from the fork block.
EmptyBlockWitness ==
    \E r \in RunIds :
        /\ pc[r] = "completed"
        /\ NumTxs(r) = 0
        /\ Len(trace[r]) = 1
        /\ txFile = <<>>

====
